---- MODULE Spec2Model ----
(***************************************************************************)
(* Model of flashcards.py: the deck of cards (an insertion-ordered dict),  *)
(* the deck file on disk, the Logger transcript and the command dispatch   *)
(* loop.  One step of the model runs the program from the return of one    *)
(* input() call to the next input() call (or to the end of the process).   *)
(***************************************************************************)
EXTENDS Integers, Sequences, FiniteSets, TLC

\* ------------------------------------------------------------------ bounds
MaxMistakes == 2      \* cap on a card's mistakes counter
MaxTimes == 2         \* largest answer to "How many times?"
MaxBuffer == 12        \* transcript entries after which no new command starts

Terms == {"cat", "dog"}
Definitions == {"meow", "woof"}
FileNames == {"deck.json"}
LogNames == {"log.txt"}
NoArg == ""

\* --------------------------------------------------- dict (DECK_T) helpers
\* A deck is a Python dict: a sequence of cards with pairwise distinct terms,
\* in insertion order.
Card(t, d, m) == [term |-> t, definition |-> d, mistakes |-> m]

Keys(d) == {d[i].term : i \in 1..Len(d)}

Values(d) == [i \in 1..Len(d) |-> [definition |-> d[i].definition, mistakes |-> d[i].mistakes]]

IndexOf(d, t) == CHOOSE i \in 1..Len(d) : d[i].term = t

\* d[t]
Get(d, t) == Values(d)[IndexOf(d, t)]

\* d[t] = {"definition": df, "mistakes": m}: an existing key keeps its place
Put(d, t, df, m) ==
    IF t \in Keys(d)
    THEN [d EXCEPT ![IndexOf(d, t)] = Card(t, df, m)]
    ELSE Append(d, Card(t, df, m))

\* a | b  (and a |= b): b's cards win, new keys are appended in b's order
RECURSIVE Merge(_, _)
Merge(a, b) ==
    IF b = <<>> THEN a
    ELSE Merge(Put(a, b[1].term, b[1].definition, b[1].mistakes), Tail(b))

\* mutant of Pop: the card is emptied instead of deleted
Pop_keeps_key(d, t) ==
    [i \in 1..Len(d) |-> IF d[i].term = t THEN Card(t, "", 0) ELSE d[i]]

\* d.pop(t, None)
Pop(d, t) == SelectSeq(d, LAMBDA c : c.term # t)

\* ------------------------------------------------------------- JSON files
\* A file is absent, zero bytes long, text that is not JSON, or the text of
\* a JSON object: its members <<key, definition, mistakes>> in text order.
Absent == [kind |-> "absent", members |-> <<>>]
EmptyFile == [kind |-> "empty", members |-> <<>>]
Garbage == [kind |-> "garbage", members |-> <<>>]
JsonText(ms) == [kind |-> "json", members |-> ms]

\* mutant of json_dump: the mistakes field is written as 0
json_dump_no_mistakes(d) == JsonText([i \in 1..Len(d) |-> <<d[i].term, d[i].definition, 0>>])

\* json.dump(d, f, indent=4): one member per card, in dict order
json_dump(d) == JsonText([i \in 1..Len(d) |-> <<d[i].term, d[i].definition, d[i].mistakes>>])

\* json.load(f): members are inserted in text order, a repeated key keeps its
\* first position and takes its last value
RECURSIVE json_load(_)
json_load(ms) ==
    IF ms = <<>> THEN <<>>
    ELSE LET n == Len(ms)
             init == json_load(SubSeq(ms, 1, n - 1))
         IN Put(init, ms[n][1], ms[n][2], ms[n][3])

\* mutant of json_file_raises: the parser is also given the zero-byte file
json_file_raises_unsized(f) == f.kind \in {"garbage", "empty"}

\* Flashcards.json_file raises on text that is not JSON
json_file_raises(f) == f.kind = "garbage"

\* Flashcards.json_file: {} for a zero-byte file, else the parsed object
json_file(f) == IF f.kind = "empty" THEN <<>> ELSE json_load(f.members)

\* ---------------------------------------------------------------- objects
\* Every object handed to Logger.write is a record with a text field: its
\* str().  None, "" and the integer 0 are the falsy ones.
None == [text |-> ""]
Str(s) == [text |-> s]
IntObj(n) == [text |-> ToString(n), int |-> n]
Falsy(o) == o.text = "" \/ ("int" \in DOMAIN o /\ o.int = 0)

\* int(line): defined on the decimal numerals only
IsNumeral(s) == \E n \in -1..(MaxTimes + 1) : ToString(n) = s
int(s) == CHOOSE n \in -1..(MaxTimes + 1) : ToString(n) = s

\* ------------------------------------------------------- Flashcards, pure
\* mutant of load: the merge keeps the in-memory card on a shared term
load_deck_wins(d, f) ==
    IF f.kind # "absent"
    THEN IF json_file_raises(f)
         THEN [raises |-> TRUE, deck |-> d, msg |-> None]
         ELSE LET _json == json_file(f)
              IN [raises |-> FALSE, deck |-> Merge(_json, d),
                  msg |-> [text |-> "cards have been loaded.", n |-> Len(_json)]]
    ELSE [raises |-> FALSE, deck |-> d, msg |-> Str("File not found.")]

\* mutant of load: the file is opened without the test that it exists
load_unguarded(d, f) ==
    IF f.kind = "absent" \/ json_file_raises(f)
    THEN [raises |-> TRUE, deck |-> d, msg |-> None]
    ELSE LET _json == json_file(f)
         IN [raises |-> FALSE, deck |-> Merge(d, _json),
             msg |-> [text |-> "cards have been loaded.", n |-> Len(_json)]]

\* Flashcards.load after the file name is known: the deck afterwards and the
\* returned message, or the parse fault of json_file
load(d, f) ==
    IF f.kind # "absent"
    THEN IF json_file_raises(f)
         THEN [raises |-> TRUE, deck |-> d, msg |-> None]
         ELSE LET _json == json_file(f)
              IN [raises |-> FALSE, deck |-> Merge(d, _json),
                  msg |-> [text |-> "cards have been loaded.", n |-> Len(_json)]]
    ELSE [raises |-> FALSE, deck |-> d, msg |-> Str("File not found.")]

\* mutant of export: the message counts the merged mapping
export_counts_merged(d, f) ==
    LET touched == IF f.kind = "absent" THEN EmptyFile ELSE f
    IN IF json_file_raises(touched)
       THEN [raises |-> TRUE, file |-> touched, msg |-> None]
       ELSE LET loaded_dict == Merge(json_file(touched), d)
            IN [raises |-> FALSE, file |-> json_dump(loaded_dict),
                msg |-> [text |-> "cards have been saved.", n |-> Len(loaded_dict)]]

\* Flashcards.export after the file name is known: the file afterwards and
\* the returned message, or the parse fault of json_file
export(d, f) ==
    LET touched == IF f.kind = "absent" THEN EmptyFile ELSE f
    IN IF json_file_raises(touched)
       THEN [raises |-> TRUE, file |-> touched, msg |-> None]
       ELSE LET loaded_dict == Merge(json_file(touched), d)
            IN [raises |-> FALSE, file |-> json_dump(loaded_dict),
                msg |-> [text |-> "cards have been saved.", n |-> Len(d)]]

\* mutant of remove: success is reported whenever the deck is not empty
remove_nonempty(d, item) ==
    IF d # <<>>
    THEN [deck |-> Pop(d, item), msg |-> Str("The card has been removed.")]
    ELSE [deck |-> Pop(d, item),
          msg |-> [text |-> "Can't remove: there is no such card.", item |-> item]]

\* Flashcards.remove after the term is known
remove(d, item) ==
    IF item \in Keys(d)
    THEN [deck |-> Pop(d, item), msg |-> Str("The card has been removed.")]
    ELSE [deck |-> Pop(d, item),
          msg |-> [text |-> "Can't remove: there is no such card.", item |-> item]]

\* mutant of wrong_right_answer: the matching cards in reverse dict order
wrong_right_answer_reversed(d, guess) ==
    LET hits == SelectSeq(d, LAMBDA c : c.definition = guess)
    IN [i \in 1..Len(hits) |-> hits[Len(hits) + 1 - i]]

\* the cards whose definition is the guess, in dict order
wrong_right_answer(d, guess) == SelectSeq(d, LAMBDA c : c.definition = guess)

\* mutant of test_answer: the counter is raised before the comparison
test_answer_counts_first(d, c, guess) ==
    LET right == Get(d, c).definition
        d2 == Put(d, c, right, Get(d, c).mistakes + 1)
        wra == wrong_right_answer(d, guess)
    IN IF right = guess
       THEN [deck |-> d2, msg |-> Str("Correct!")]
       ELSE [deck |-> d2,
             msg |-> IF wra # <<>>
                     THEN [text |-> "Wrong. The right answer is", answer |-> right,
                           other |-> wra[1].term]
                     ELSE [text |-> "Wrong. The right answer is", answer |-> right]]

\* Flashcards.test_answer
test_answer(d, c, guess) ==
    IF Get(d, c).definition = guess
    THEN [deck |-> d, msg |-> Str("Correct!")]
    ELSE LET wra == wrong_right_answer(d, guess)
             right == Get(d, c).definition
             d2 == Put(d, c, right, Get(d, c).mistakes + 1)
         IN [deck |-> d2,
             msg |-> IF wra # <<>>
                     THEN [text |-> "Wrong. The right answer is", answer |-> right,
                           other |-> wra[1].term]
                     ELSE [text |-> "Wrong. The right answer is", answer |-> right]]

\* mutant of hardest_card: the any() test only looks for an empty deck
hardest_card_unguarded(d) ==
    IF d = <<>>
    THEN Str("There are no cards with errors.")
    ELSE LET max_val == CHOOSE m \in {d[i].mistakes : i \in 1..Len(d)} :
                            \A i \in 1..Len(d) : d[i].mistakes <= m
             hardest == SelectSeq(d, LAMBDA c : c.mistakes = max_val)
             cards == [i \in 1..Len(hardest) |-> hardest[i].term]
             more_than_one == Len(cards) > 1
         IN [text |-> "The hardest card",
             s |-> IF more_than_one THEN "s" ELSE "",
             verb |-> IF more_than_one THEN "are" ELSE "is",
             cards |-> cards,
             errors |-> max_val,
             pronoun |-> IF more_than_one THEN "them" ELSE "it"]

\* mutant of hardest_card: every card with a mistake is listed
hardest_card_any_mistake(d) ==
    IF ~ \E i \in 1..Len(d) : d[i].mistakes # 0
    THEN Str("There are no cards with errors.")
    ELSE LET max_val == CHOOSE m \in {d[i].mistakes : i \in 1..Len(d)} :
                            \A i \in 1..Len(d) : d[i].mistakes <= m
             hardest == SelectSeq(d, LAMBDA c : c.mistakes > 0)
             cards == [i \in 1..Len(hardest) |-> hardest[i].term]
             more_than_one == Len(cards) > 1
         IN [text |-> "The hardest card",
             s |-> IF more_than_one THEN "s" ELSE "",
             verb |-> IF more_than_one THEN "are" ELSE "is",
             cards |-> cards,
             errors |-> max_val,
             pronoun |-> IF more_than_one THEN "them" ELSE "it"]

\* Flashcards.hardest_card
hardest_card(d) ==
    IF ~ \E i \in 1..Len(d) : d[i].mistakes # 0
    THEN Str("There are no cards with errors.")
    ELSE LET max_val == CHOOSE m \in {d[i].mistakes : i \in 1..Len(d)} :
                            \A i \in 1..Len(d) : d[i].mistakes <= m
             hardest == SelectSeq(d, LAMBDA c : c.mistakes = max_val)
             cards == [i \in 1..Len(hardest) |-> hardest[i].term]
             more_than_one == Len(cards) > 1
         IN [text |-> "The hardest card",
             s |-> IF more_than_one THEN "s" ELSE "",
             verb |-> IF more_than_one THEN "are" ELSE "is",
             cards |-> cards,
             errors |-> max_val,
             pronoun |-> IF more_than_one THEN "them" ELSE "it"]

\* mutant of reset_stats: the loop stops after the first card
reset_stats_first(d) ==
    [i \in 1..Len(d) |-> IF i = 1 THEN Card(d[i].term, d[i].definition, 0) ELSE d[i]]

\* Flashcards.reset_stats
reset_stats(d) == [i \in 1..Len(d) |-> Card(d[i].term, d[i].definition, 0)]

\* mutant of choices: one more term is drawn than was asked for
choices_one_more(d, times) == IF times < 0 THEN {<<>>} ELSE [1..times + 1 -> Keys(d)]

\* random.choices(tuple(deck), k=times): every draw with replacement
choices(d, times) == IF times <= 0 THEN {<<>>} ELSE [1..times -> Keys(d)]

\* ------------------------------------------------------------------ state
VARIABLES
    deck,       \* Flashcards.deck
    fs,         \* the deck files on disk, by name
    logfile,    \* the log files on disk, by name
    args,       \* the parsed startup flags import_from and export_to
    pc,         \* the input() call the process is blocked in, or its end
    line,       \* the line the last input() call returned
    action,     \* the dispatch loop's local: the action being served
    card,       \* add's local: the term accepted so far
    items,      \* ask's local: the drawn terms not yet graded
    result,     \* the value the last finished handler returned to the loop
    verdict,    \* the value the last test_answer call returned
    buffer,     \* Logger.buffer: the transcript entries, oldest first
    recording,  \* whether this run of the model keeps the transcript and the log files
    since_reset \* history: the add, ask and import commands since the last reset stats

vars == <<deck, fs, logfile, args, pc, line, action, card, items, result,
          verdict, buffer, recording, since_reset>>

\* ----------------------------------------------------------------- Logger
\* Logger.buffer is a StringIO: the entries written so far and the stream
\* position, counted in entries.  Every write is one whole entry, so the
\* position is always on an entry boundary.
NewBuffer == [lines |-> <<>>, pos |-> 0]

\* StringIO.write at the stream position: the entry there, if any, is
\* overwritten, and the position moves behind the written entry
io_write(buf, entry) ==
    [lines |-> SubSeq(buf.lines, 1, buf.pos) \o <<entry>>
               \o SubSeq(buf.lines, buf.pos + 2, Len(buf.lines)),
     pos |-> buf.pos + 1]

\* Logger.write: writes one entry unless the object is falsy.  The
\* timestamp of an entry is left out.  The transcript never influences the
\* deck or the deck files, so the runs that do not keep it (recording =
\* FALSE) cover the same deck behaviour with a finite state space.
write(buf, string, out) ==
    IF Falsy(string) \/ ~recording
    THEN buf
    ELSE io_write(buf, [out |-> out, string |-> string])

\* Logger.write_in up to the input() call: the prompt is recorded
write_in(buf, prompt) == write(buf, prompt, TRUE)

\* mutant of read: the stream is left at its start after the dump
read_rewinds(buf) ==
    [string |-> buf.lines, buffer |-> [lines |-> buf.lines, pos |-> 0]]

\* Logger.read: seek(0), then read() returns everything up to the end of
\* the stream and leaves the position there
read(buf) ==
    [string |-> SubSeq(buf.lines, 1, Len(buf.lines)),
     buffer |-> [lines |-> buf.lines, pos |-> Len(buf.lines)]]

MenuPrompt == Str("Input one of these actions:")

\* the loop body after the handler returned: the result is recorded and the
\* next iteration prompts for an action
loop(buf, res) == write_in(write(buf, res, TRUE), MenuPrompt)

\* a new command starts, and add asks again, only while the kept transcript
\* is short
SessionOpen == recording => Len(buffer.lines) < MaxBuffer

\* History of the commands dispatched since the last "reset stats": the
\* add and import commands among them, {"ask"} once an ask was among them
\* (the counters may then be anything), {"never"} before the first reset.
\* Runs that start from {"untracked"} keep no history.
Untracked == {"untracked"}
NeverReset == {"never"}
Track(h, a) ==
    IF h = Untracked THEN h
    ELSE IF a = "reset stats" THEN {}
    ELSE IF h = NeverReset \/ "ask" \in h THEN h
    ELSE IF a = "ask" THEN {"ask"}
    ELSE IF a \in {"add", "import"} THEN h \cup {a}
    ELSE h

\* ------------------------------------------------------------------- Init
\* the JSON objects found on disk at startup: {} or a single card
InitialMembers == {<<>>} \cup {<<m>> : m \in Terms \X Definitions \X (0..MaxMistakes)}

InitialFiles == {Absent, EmptyFile, Garbage} \cup {JsonText(ms) : ms \in InitialMembers}

\* the startup flags: none given, or both --import_from and --export_to
NoArgs == [import_from |-> NoArg, export_to |-> NoArg]
AllArgs == {NoArgs} \cup [import_from : FileNames, export_to : FileNames]

InitWith(rec, hist) ==
    /\ deck = <<>>
    /\ logfile = [n \in LogNames |-> [exists |-> FALSE, lines |-> <<>>]]
    /\ pc = "start"
    /\ line = ""
    /\ action = ""
    /\ card = ""
    /\ items = <<>>
    /\ result = None
    /\ verdict = None
    /\ buffer = NewBuffer
    /\ recording = rec
    /\ since_reset = hist

\* every startup, no transcript and no history kept
Init == InitWith(FALSE, Untracked) /\ fs \in [FileNames -> InitialFiles] /\ args \in AllArgs

\* startup without flags, with the history of commands since the last reset
InitStats == InitWith(FALSE, NeverReset) /\ fs \in [FileNames -> InitialFiles] /\ args = NoArgs

\* the startup flags, each given or not
FlagArgs == [import_from : FileNames \cup {NoArg}, export_to : FileNames \cup {NoArg}]

\* every startup, the transcript and the log files kept
InitSession == InitWith(TRUE, Untracked) /\ fs \in [FileNames -> InitialFiles] /\ args \in FlagArgs

\* ---------------------------------------------------------------- actions
\* __main__ before the loop: the optional load of --import_from, then the
\* first prompt
Startup ==
    /\ pc = "start"
    /\ LET r == IF args.import_from # NoArg
                THEN load(deck, fs[args.import_from])
                ELSE [raises |-> FALSE, deck |-> deck, msg |-> None]
           named == IF args.import_from # NoArg
                    THEN write(buffer, Str(args.import_from), FALSE)
                    ELSE buffer
       IN IF r.raises
          THEN /\ pc' = "crashed"
               /\ buffer' = named
               /\ UNCHANGED <<deck, result>>
          ELSE /\ pc' = "menu"
               /\ deck' = r.deck
               /\ result' = r.msg
               /\ buffer' = loop(named, r.msg)
    /\ UNCHANGED <<fs, logfile, args, line, action, card, items, verdict, recording, since_reset>>

\* the loop reads an action: the part every dispatch shares
Read(a) ==
    /\ pc = "menu"
    /\ SessionOpen
    /\ line' = a
    /\ action' = a
    /\ verdict' = None
    /\ since_reset' = Track(since_reset, a)

heard == write(buffer, Str(line'), FALSE)

\* "add": prompts for the term
DispatchAdd ==
    /\ Read("add")
    /\ pc' = "add_card"
    /\ buffer' = write_in(heard, Str("Card:"))
    /\ result' = None
    /\ UNCHANGED <<deck, fs, logfile, args, card, items, recording>>

\* Flashcards.add, first loop: a term already in the deck is asked again
AddCard ==
    /\ pc = "add_card"
    /\ SessionOpen
    /\ \E l \in Terms :
        /\ line' = l
        /\ IF l \in Keys(deck)
           THEN /\ pc' = "add_card"
                /\ card' = card
                /\ buffer' = write_in(write(buffer, [text |-> "The card already exists.", card |-> l], TRUE),
                                      Str("Card:"))
           ELSE /\ pc' = "add_def"
                /\ card' = l
                /\ buffer' = write_in(write(buffer, Str(l), FALSE), Str("Definition:"))
    /\ UNCHANGED <<deck, fs, logfile, args, action, items, result, verdict, recording, since_reset>>

\* mutant of used_definitions: the definition is looked up among the keys
used_definitions_keys(d) == Keys(d)

\* the definitions in use: [item["definition"] for item in deck.values()]
used_definitions(d) == {Values(d)[i].definition : i \in 1..Len(d)}

\* mutant of add: term and definition change places in the insertion
add_swapped(d, c, definition) ==
    [deck |-> Put(d, definition, c, 0),
     msg |-> [text |-> "The pair has been added.", card |-> c, definition |-> definition]]

\* Flashcards.add after both loops: the insertion and the returned message
add(d, c, definition) ==
    [deck |-> Put(d, c, definition, 0),
     msg |-> [text |-> "The pair has been added.", card |-> c, definition |-> definition]]

\* Flashcards.add, second loop and the insertion
AddDefinition ==
    /\ pc = "add_def"
    /\ SessionOpen
    /\ \E l \in Definitions :
        /\ line' = l
        /\ IF l \in used_definitions(deck)
           THEN /\ pc' = "add_def"
                /\ buffer' = write_in(write(buffer, [text |-> "The definition already exists.", definition |-> l], TRUE),
                                      Str("Definition:"))
                /\ UNCHANGED <<deck, card, result>>
           ELSE /\ pc' = "menu"
                /\ deck' = add(deck, card, l).deck
                /\ card' = ""
                /\ result' = add(deck, card, l).msg
                /\ buffer' = loop(write(buffer, Str(l), FALSE), result')
    /\ UNCHANGED <<fs, logfile, args, action, items, verdict, recording, since_reset>>

\* "remove": prompts for the term
DispatchRemove ==
    /\ Read("remove")
    /\ pc' = "remove_which"
    /\ buffer' = write_in(heard, Str("Which card?"))
    /\ result' = None
    /\ UNCHANGED <<deck, fs, logfile, args, card, items, recording>>

\* Flashcards.remove
Remove ==
    /\ pc = "remove_which"
    /\ \E l \in Terms :
        /\ line' = l
        /\ deck' = remove(deck, l).deck
        /\ result' = remove(deck, l).msg
        /\ buffer' = loop(write(buffer, Str(l), FALSE), result')
    /\ pc' = "menu"
    /\ UNCHANGED <<fs, logfile, args, action, card, items, verdict, recording, since_reset>>

\* "import": prompts for the file name
DispatchLoad ==
    /\ Read("import")
    /\ pc' = "load_filename"
    /\ buffer' = write_in(heard, Str("Filename:"))
    /\ result' = None
    /\ UNCHANGED <<deck, fs, logfile, args, card, items, recording>>

\* Flashcards.load with the name read from the user
Load ==
    /\ pc = "load_filename"
    /\ \E l \in FileNames :
        /\ line' = l
        /\ LET r == load(deck, fs[l])
               named == write(buffer, Str(l), FALSE)
           IN IF r.raises
              THEN /\ pc' = "crashed"
                   /\ buffer' = named
                   /\ UNCHANGED <<deck, result>>
              ELSE /\ pc' = "menu"
                   /\ deck' = r.deck
                   /\ result' = r.msg
                   /\ buffer' = loop(named, r.msg)
    /\ UNCHANGED <<fs, logfile, args, action, card, items, verdict, recording, since_reset>>

\* "export": prompts for the file name
DispatchExport ==
    /\ Read("export")
    /\ pc' = "export_filename"
    /\ buffer' = write_in(heard, Str("Filename:"))
    /\ result' = None
    /\ UNCHANGED <<deck, fs, logfile, args, card, items, recording>>

\* Flashcards.export with the name read from the user
Export ==
    /\ pc = "export_filename"
    /\ \E l \in FileNames :
        /\ line' = l
        /\ LET r == export(deck, fs[l])
               named == write(buffer, Str(l), FALSE)
           IN /\ fs' = [fs EXCEPT ![l] = r.file]
              /\ IF r.raises
                 THEN /\ pc' = "crashed"
                      /\ buffer' = named
                      /\ UNCHANGED result
                 ELSE /\ pc' = "menu"
                      /\ result' = r.msg
                      /\ buffer' = loop(named, r.msg)
    /\ UNCHANGED <<deck, logfile, args, action, card, items, verdict, recording, since_reset>>

\* mutant of DispatchAsk: the number of questions is asked of any deck
DispatchAsk_unguarded ==
    /\ Read("ask")
    /\ pc' = "ask_times"
    /\ result' = None
    /\ buffer' = write_in(heard, Str("How many times?"))
    /\ UNCHANGED <<deck, fs, logfile, args, card, items, recording>>

\* "ask": an empty deck is reported, else the number of questions is asked
DispatchAsk ==
    /\ Read("ask")
    /\ IF deck = <<>>
       THEN /\ pc' = "menu"
            /\ result' = Str("There are no cards in the deck.")
            /\ buffer' = loop(heard, result')
       ELSE /\ pc' = "ask_times"
            /\ result' = None
            /\ buffer' = write_in(heard, Str("How many times?"))
    /\ UNCHANGED <<deck, fs, logfile, args, card, items, recording>>

\* what the user may answer to "How many times?"
TimesLines == {ToString(n) : n \in -1..MaxTimes} \cup {"many"}

question(c) == [text |-> "Input the definition of", card |-> c]

\* Flashcards.ask from the answer to "How many times?" to the first question
AskTimes ==
    /\ pc = "ask_times"
    /\ \E l \in TimesLines :
        /\ line' = l
        /\ IF ~IsNumeral(l)
           THEN /\ pc' = "crashed"
                /\ UNCHANGED <<items, result, buffer>>
           ELSE LET times == int(l)
                    counted == write(buffer, IntObj(times), FALSE)
                IN \E drawn \in choices(deck, times) :
                    /\ items' = drawn
                    /\ IF drawn = <<>>
                       THEN /\ pc' = "menu"
                            /\ result' = None
                            /\ buffer' = loop(counted, None)
                       ELSE /\ pc' = "ask_guess"
                            /\ buffer' = write_in(counted, question(drawn[1]))
                            /\ UNCHANGED result
    /\ UNCHANGED <<deck, fs, logfile, args, action, card, verdict, recording, since_reset>>

\* what the user may answer to a question
Guesses == Definitions

\* Flashcards.ask, one turn of the for loop: the guess is graded, then the
\* next question is asked or ask returns None
AskGuess ==
    /\ pc = "ask_guess"
    /\ \E l \in Guesses :
        /\ line' = l
        /\ LET r == test_answer(deck, Head(items), l)
               graded == write(buffer, r.msg, TRUE)
           IN /\ \A i \in 1..Len(r.deck) : r.deck[i].mistakes <= MaxMistakes
              /\ deck' = r.deck
              /\ verdict' = r.msg
              /\ items' = Tail(items)
              /\ IF Tail(items) = <<>>
                 THEN /\ pc' = "menu"
                      /\ result' = None
                      /\ buffer' = loop(graded, None)
                 ELSE /\ pc' = "ask_guess"
                      /\ buffer' = write_in(graded, question(Head(Tail(items))))
                      /\ UNCHANGED result
    /\ UNCHANGED <<fs, logfile, args, action, card, recording, since_reset>>

\* "hardest card"
HardestCard ==
    /\ Read("hardest card")
    /\ pc' = "menu"
    /\ result' = hardest_card(deck)
    /\ buffer' = loop(heard, result')
    /\ UNCHANGED <<deck, fs, logfile, args, card, items, recording>>

\* "reset stats"
ResetStats ==
    /\ Read("reset stats")
    /\ pc' = "menu"
    /\ deck' = reset_stats(deck)
    /\ result' = Str("Card statistics have been reset.")
    /\ buffer' = loop(heard, result')
    /\ UNCHANGED <<fs, logfile, args, card, items, recording>>

\* mutant of Exit: the farewell is recorded before the export
Exit_farewell_first ==
    /\ Read("exit")
    /\ LET r == IF args.export_to # NoArg
                THEN export(deck, fs[args.export_to])
                ELSE [raises |-> FALSE, file |-> Absent, msg |-> None]
           bye == write(heard, Str("Bye bye"), TRUE)
           named == IF args.export_to # NoArg
                    THEN write(bye, Str(args.export_to), FALSE)
                    ELSE bye
       IN /\ fs' = IF args.export_to # NoArg
                   THEN [fs EXCEPT ![args.export_to] = r.file]
                   ELSE fs
          /\ IF r.raises
             THEN /\ pc' = "crashed"
                  /\ buffer' = named
                  /\ UNCHANGED result
             ELSE /\ pc' = "exited"
                  /\ result' = r.msg
                  /\ buffer' = write(named, r.msg, TRUE)
    /\ UNCHANGED <<deck, logfile, args, card, items, recording>>

\* "exit": Flashcards.exit, the optional export of --export_to, the
\* farewell and the end of the process
Exit ==
    /\ Read("exit")
    /\ LET r == IF args.export_to # NoArg
                THEN export(deck, fs[args.export_to])
                ELSE [raises |-> FALSE, file |-> Absent, msg |-> None]
           named == IF args.export_to # NoArg
                    THEN write(heard, Str(args.export_to), FALSE)
                    ELSE heard
       IN /\ fs' = IF args.export_to # NoArg
                   THEN [fs EXCEPT ![args.export_to] = r.file]
                   ELSE fs
          /\ IF r.raises
             THEN /\ pc' = "crashed"
                  /\ buffer' = named
                  /\ UNCHANGED result
             ELSE /\ pc' = "exited"
                  /\ result' = r.msg
                  /\ buffer' = write(write(named, r.msg, TRUE), Str("Bye bye"), TRUE)
    /\ UNCHANGED <<deck, logfile, args, card, items, recording>>

\* "log": prompts for the file name
DispatchLog ==
    /\ Read("log")
    /\ pc' = "log_filename"
    /\ buffer' = write_in(heard, Str("File name:"))
    /\ result' = None
    /\ UNCHANGED <<deck, fs, logfile, args, card, items, recording>>

\* Flashcards.log: the file is opened for writing, its name is recorded and
\* the whole transcript is written to it
Log ==
    /\ pc = "log_filename"
    /\ \E l \in LogNames :
        /\ line' = l
        /\ LET named == write(buffer, Str(l), FALSE)
               dumped == read(named)
           IN /\ logfile' = IF recording
                           THEN [logfile EXCEPT ![l] = [exists |-> TRUE, lines |-> dumped.string]]
                           ELSE logfile
              /\ result' = Str("The log has been saved.")
              /\ buffer' = loop(dumped.buffer, result')
    /\ pc' = "menu"
    /\ UNCHANGED <<deck, fs, args, action, card, items, verdict, recording, since_reset>>

\* the names in the options table
options == {"add", "remove", "import", "export", "ask", "exit", "log",
            "hardest card", "reset stats"}

\* what the user may type that is not in the table
OtherActions == {"help"}

\* mutant of Unknown: a name not in the table ends the loop
Unknown_ends ==
    /\ \E a \in OtherActions : Read(a)
    /\ line' \notin options
    /\ pc' = "exited"
    /\ result' = Str("Unknown option")
    /\ buffer' = write(heard, result', TRUE)
    /\ UNCHANGED <<deck, fs, logfile, args, card, items, recording>>

\* options.get(action, lambda: "Unknown option")() for a name not in the table
Unknown ==
    /\ \E a \in OtherActions : Read(a)
    /\ line' \notin options
    /\ pc' = "menu"
    /\ result' = Str("Unknown option")
    /\ buffer' = loop(heard, result')
    /\ UNCHANGED <<deck, fs, logfile, args, card, items, recording>>

Next ==
    \/ Startup
    \/ DispatchAdd
    \/ AddCard
    \/ AddDefinition
    \/ DispatchRemove
    \/ Remove
    \/ DispatchLoad
    \/ Load
    \/ DispatchExport
    \/ Export
    \/ DispatchAsk
    \/ AskTimes
    \/ AskGuess
    \/ HardestCard
    \/ ResetStats
    \/ Exit
    \/ DispatchLog
    \/ Log
    \/ Unknown

Spec == Init /\ [][Next]_vars

SpecStats == InitStats /\ [][Next]_vars

SpecSession == InitSession /\ [][Next]_vars

\* ---------------------------------------------------------------- grading
\* test_answer on the decks a file can bring in: up to three cards, in any
\* order, where cards may share a definition.  The process is in ask, the
\* terms are drawn and the first question is shown.
GradeTerms == {"cat", "dog", "owl"}

GradeDecks ==
    {d \in UNION {[1..n -> [term : GradeTerms, definition : Definitions, mistakes : {0}]] :
                     n \in 1..Cardinality(GradeTerms)} :
        \A i, j \in 1..Len(d) : d[i].term = d[j].term => i = j}

InitGrade ==
    /\ deck \in GradeDecks
    /\ fs = [n \in FileNames |-> json_dump(deck)]
    /\ logfile = [n \in LogNames |-> [exists |-> FALSE, lines |-> <<>>]]
    /\ args = NoArgs
    /\ items \in UNION {[1..n -> Keys(deck)] : n \in 1..MaxTimes}
    /\ pc = "ask_guess"
    /\ line = ToString(Len(items))
    /\ action = "ask"
    /\ card = ""
    /\ result = None
    /\ verdict = None
    /\ buffer = NewBuffer
    /\ recording = FALSE
    /\ since_reset = Untracked

\* the answers to the questions are read and graded
NextGrade == AskGuess

SpecGrade == InitGrade /\ [][NextGrade]_vars

TypeOK ==
    /\ pc \in {"start", "menu", "add_card", "add_def", "remove_which", "load_filename",
               "export_filename", "ask_times", "ask_guess", "log_filename", "exited", "crashed"}
    /\ \A i, j \in 1..Len(deck) : deck[i].term = deck[j].term => i = j
    /\ \A i \in 1..Len(deck) : deck[i].mistakes \in 0..MaxMistakes

\* ----------------------------------------------------------------- claims
NoSharedDefinition(d) ==
    \A i, j \in 1..Len(d) : d[i].definition = d[j].definition => i = j

\* a step of Flashcards.load: the startup load or the "import" command
LoadStep == pc \in {"start", "load_filename"}

\* C1 as stated: between commands, after any sequence of commands from the
\* empty deck (import included), no two distinct cards have the same
\* definition.
C1_AsStated == pc = "menu" => NoSharedDefinition(deck)

\* C1 amended: every step of every command other than import (load) keeps
\* the definitions pairwise distinct, so they are distinct after any sequence
\* of add, remove, export, ask, reset stats and hardest card commands from
\* the empty deck; only load can bring in a card that shares a definition.
C1_UniqueDefinitions ==
    [][(NoSharedDefinition(deck) /\ ~LoadStep) => NoSharedDefinition(deck')]_vars

\* add has completed with a second card, the definitions are distinct
C1_Witness ==
    /\ pc = "menu"
    /\ action = "add"
    /\ Len(deck) = 2
    /\ NoSharedDefinition(deck)

ResetStep == pc = "menu" /\ line' = "reset stats"

Mistakes(d, t) == Get(d, t).mistakes

\* C2 as stated: a term that stays in the deck never sees its counter go
\* down, except by reset stats, which sets every counter to 0.
C2_AsStated ==
    [][IF ResetStep
       THEN \A t \in Keys(deck') : Mistakes(deck', t) = 0
       ELSE \A t \in Keys(deck) \cap Keys(deck') : Mistakes(deck', t) >= Mistakes(deck, t)]_vars

\* C2 amended: a term that stays in the deck never sees its counter go down,
\* except by reset stats, which sets every counter to 0 in one step, and by
\* import (load), which replaces the card of every term of the file.
C2_Monotonic ==
    [][IF ResetStep
       THEN \A t \in Keys(deck') : Mistakes(deck', t) = 0
       ELSE ~LoadStep =>
            \A t \in Keys(deck) \cap Keys(deck') : Mistakes(deck', t) >= Mistakes(deck, t)]_vars

\* a wrong answer has just raised a counter to 2
C2_Witness ==
    /\ verdict.text = "Wrong. The right answer is"
    /\ \E i \in 1..Len(deck) : deck[i].mistakes >= 2

\* C3: test_answer says "Correct!" exactly for the stored definition and
\* then changes nothing; otherwise the asked card's counter grows by 1, the
\* message carries the true definition and no other card changes.
C3_Grade ==
    [][pc = "ask_guess" =>
        LET c == Head(items)
            right == Get(deck, c).definition
        IN /\ (verdict'.text = "Correct!") <=> (line' = right)
           /\ line' = right => deck' = deck
           /\ line' # right =>
                /\ Mistakes(deck', c) = Mistakes(deck, c) + 1
                /\ Get(deck', c).definition = right
                /\ verdict'.answer = right
                /\ Keys(deck') = Keys(deck)
                /\ \A t \in Keys(deck) \ {c} : Get(deck', t) = Get(deck, t)]_vars

\* a wrong answer on a deck of two cards has been graded
C3_Witness ==
    /\ pc \in {"ask_guess", "menu"}
    /\ action = "ask"
    /\ verdict.text = "Wrong. The right answer is"
    /\ Len(deck) = 2
    /\ \E i \in 1..Len(deck) : deck[i].mistakes = 1 /\ deck[i].definition = verdict.answer

\* C4: add asks again for a term that is a key or a definition that is in
\* use, leaving the deck alone; with a new term and a new definition it
\* inserts that card with mistakes 0, the deck grows by exactly 1 and the
\* other cards stay.
C4_Add ==
    [][/\ pc = "add_card" =>
            IF line' \in Keys(deck)
            THEN pc' = "add_card" /\ deck' = deck
            ELSE pc' = "add_def" /\ card' = line' /\ deck' = deck
       /\ pc = "add_def" =>
            IF \E i \in 1..Len(deck) : deck[i].definition = line'
            THEN pc' = "add_def" /\ deck' = deck
            ELSE /\ pc' = "menu"
                 /\ card \notin Keys(deck)
                 /\ Keys(deck') = Keys(deck) \cup {card}
                 /\ Get(deck', card) = [definition |-> line', mistakes |-> 0]
                 /\ Len(deck') = Len(deck) + 1
                 /\ \A t \in Keys(deck) : Get(deck', t) = Get(deck, t)]_vars

\* add has completed next to a card that already has mistakes
C4_Witness ==
    /\ pc = "menu"
    /\ action = "add"
    /\ Len(deck) = 2
    /\ deck[1].mistakes > 0
    /\ deck[2].mistakes = 0
    /\ result.card = deck[2].term

\* C5: remove on a term that is not a key returns the "no such card" message
\* naming the term and leaves the deck as it was.
C5_RemoveMissing ==
    [][(pc = "remove_which" /\ line' \notin Keys(deck)) =>
        /\ result' = [text |-> "Can't remove: there is no such card.", item |-> line']
        /\ deck' = deck]_vars

\* remove has been refused on a deck that holds another card
C5_Witness ==
    /\ pc = "menu"
    /\ action = "remove"
    /\ result.text = "Can't remove: there is no such card."
    /\ deck # <<>>
    /\ line \notin Keys(deck)

\* a step of Flashcards.export that returns, and the name it wrote to
ExportStep ==
    \/ pc = "export_filename" /\ pc' = "menu"
    \/ pc = "menu" /\ line' = "exit" /\ args.export_to # NoArg /\ pc' = "exited"

ExportName == IF pc = "menu" THEN args.export_to ELSE line'

\* a step of Flashcards.load that finds the file and returns, and its name
LoadedStep ==
    \/ pc = "load_filename" /\ pc' = "menu" /\ fs[line'].kind # "absent"
    \/ pc = "start" /\ pc' = "menu" /\ args.import_from # NoArg
                    /\ fs[args.import_from].kind # "absent"

LoadName == IF pc = "start" THEN args.import_from ELSE line'

\* the mapping a file holds: nothing when it is absent or zero bytes long
Holds(f) == IF f.kind \in {"absent", "empty"} THEN <<>> ELSE json_load(f.members)

\* C6: export of the deck to a file that is absent or zero bytes long writes
\* a file whose load into an empty deck gives back the same terms,
\* definitions and mistake counters.
C6_RoundTrip ==
    [][(ExportStep /\ fs[ExportName].kind \in {"absent", "empty"}) =>
        LET back == load(<<>>, fs'[ExportName])
        IN /\ ~back.raises
           /\ Keys(back.deck) = Keys(deck)
           /\ \A t \in Keys(deck) : Get(back.deck, t) = Get(deck, t)]_vars

\* two cards, one with mistakes, have been exported and the file holds
\* exactly the deck
C6_Witness ==
    /\ pc = "menu"
    /\ action = "export"
    /\ Len(deck) = 2
    /\ \E i \in 1..Len(deck) : deck[i].mistakes > 0
    /\ Len(fs[line].members) = 2
    /\ load(<<>>, fs[line]).deck = deck

\* C7: load of an existing file holding F leaves the deck overridden by F:
\* F's card for every term of F, the old card for every other term, no
\* further term, and the message counts the entries of F.
C7_LoadMerges ==
    [][LoadedStep =>
        LET F == Holds(fs[LoadName])
        IN /\ \A t \in Keys(F) : Get(deck', t) = Get(F, t)
           /\ \A t \in Keys(deck) \ Keys(F) : Get(deck', t) = Get(deck, t)
           /\ Keys(deck') = Keys(deck) \cup Keys(F)
           /\ Len(deck') = Cardinality(Keys(deck'))
           /\ result' = [text |-> "cards have been loaded.", n |-> Cardinality(Keys(F))]]_vars

\* a load of one card into a deck that keeps another card
C7_Witness ==
    /\ pc = "menu"
    /\ action = "import"
    /\ result = [text |-> "cards have been loaded.", n |-> 1]
    /\ Len(deck) = 2
    /\ Keys(Holds(fs[line])) # Keys(deck)

\* C8: export writes the file's mapping overridden by the deck, leaves the
\* deck alone and reports the number of cards of the deck.
C8_ExportMerges ==
    [][ExportStep =>
        LET F == Holds(fs[ExportName])
            G == Holds(fs'[ExportName])
        IN /\ fs'[ExportName].kind = "json"
           /\ \A t \in Keys(deck) : Get(G, t) = Get(deck, t)
           /\ \A t \in Keys(F) \ Keys(deck) : Get(G, t) = Get(F, t)
           /\ Keys(G) = Keys(F) \cup Keys(deck)
           /\ Len(fs'[ExportName].members) = Cardinality(Keys(G))
           /\ deck' = deck
           /\ result' = [text |-> "cards have been saved.", n |-> Len(deck)]]_vars

\* an export of one card onto a file that keeps another card
C8_Witness ==
    /\ pc = "menu"
    /\ action = "export"
    /\ result = [text |-> "cards have been saved.", n |-> 1]
    /\ Len(fs[line].members) = 2

NoErrors == Str("There are no cards with errors.")

AfterHardestCard == pc = "menu" /\ action = "hardest card"

\* C9 as stated: hardest card after reset stats, with no add and no ask
\* command in between, returns the "no cards with errors" message.
C9_AsStated ==
    (AfterHardestCard /\ since_reset \cap {"add", "ask"} = {} /\ since_reset # NeverReset)
        => result = NoErrors

\* C9 amended: hardest card after reset stats, with no ask and no import
\* command in between, returns the "no cards with errors" message.
C9_ResetThenHardest ==
    (AfterHardestCard /\ since_reset \cap {"ask", "import"} = {} /\ since_reset # NeverReset)
        => result = NoErrors

\* hardest card has answered after a reset of a deck with two cards
C9_Witness ==
    /\ AfterHardestCard
    /\ since_reset = {}
    /\ Len(deck) = 2
    /\ result = NoErrors

MaxOf(d) == CHOOSE m \in 0..MaxMistakes : 
    /\ \E i \in 1..Len(d) : d[i].mistakes = m
    /\ \A i \in 1..Len(d) : d[i].mistakes <= m

\* C10: with a counter above 0, hardest card names exactly the cards at the
\* maximum counter, reports that maximum, and is worded in the plural exactly
\* when it names more than one card; with no counter above 0 it returns the
\* "no cards with errors" message.
C10_Hardest ==
    AfterHardestCard =>
        IF \E i \in 1..Len(deck) : deck[i].mistakes > 0
        THEN LET top == {t \in Keys(deck) : Mistakes(deck, t) = MaxOf(deck)}
                 plural == Cardinality(top) > 1
             IN /\ result.text = "The hardest card"
                /\ {result.cards[i] : i \in 1..Len(result.cards)} = top
                /\ Len(result.cards) = Cardinality(top)
                /\ result.errors = MaxOf(deck)
                /\ result.s = (IF plural THEN "s" ELSE "")
                /\ result.verb = (IF plural THEN "are" ELSE "is")
                /\ result.pronoun = (IF plural THEN "them" ELSE "it")
        ELSE result = NoErrors

\* hardest card has named one of two cards that both have mistakes
C10_Witness ==
    /\ AfterHardestCard
    /\ Len(deck) = 2
    /\ \A i \in 1..Len(deck) : deck[i].mistakes > 0
    /\ Len(result.cards) = 1

\* the entries a step adds to the transcript
Added == SubSeq(buffer'.lines, Len(buffer.lines) + 1, Len(buffer'.lines))

NoCards == Str("There are no cards in the deck.")

\* C11: ask on an empty deck returns "There are no cards in the deck.", the
\* next line read is the next action (no "How many times?" prompt and no
\* question is shown), and the deck stays empty.
C11_AskEmpty ==
    [][(pc = "menu" /\ line' = "ask" /\ deck = <<>>) =>
        /\ result' = NoCards
        /\ pc' = "menu"
        /\ deck' = <<>>
        /\ items' = <<>>
        /\ Added = <<[out |-> FALSE, string |-> Str("ask")],
                     [out |-> TRUE, string |-> NoCards],
                     [out |-> TRUE, string |-> MenuPrompt]>>]_vars

\* ask has answered on the empty deck after an earlier command
C11_Witness ==
    /\ pc = "menu"
    /\ action = "ask"
    /\ deck = <<>>
    /\ result = NoCards
    /\ Len(buffer.lines) > 4
    /\ buffer.lines[Len(buffer.lines) - 1].string = NoCards

UnknownOption == Str("Unknown option")

\* C12: an action that is not a name of the options table is answered with
\* "Unknown option", the deck and the files stay as they are, and the loop
\* prompts for the next action: it does not end.
C12_Unknown ==
    [][(pc = "menu" /\ line' \notin options) =>
        /\ result' = UnknownOption
        /\ deck' = deck
        /\ fs' = fs
        /\ pc' = "menu"
        /\ Len(Added) >= 2
        /\ Added[Len(Added) - 1] = [out |-> TRUE, string |-> UnknownOption]
        /\ Added[Len(Added)] = [out |-> TRUE, string |-> MenuPrompt]]_vars

\* an unknown action has been answered on a deck of two cards
C12_Witness ==
    /\ pc = "menu"
    /\ action \in OtherActions
    /\ result = UnknownOption
    /\ Len(deck) = 2
    /\ buffer.lines[Len(buffer.lines)].string = MenuPrompt

\* a step of Flashcards.load on a name at which no file exists
LoadAbsentStep ==
    \/ pc = "load_filename" /\ fs[line'].kind = "absent"
    \/ pc = "start" /\ args.import_from # NoArg /\ fs[args.import_from].kind = "absent"

FileNotFound == Str("File not found.")

\* C13: load of a name at which no file exists returns "File not found." to
\* the loop, which records it and prompts for the next action; there is no
\* fault, the deck is unchanged and no file is created.
C13_LoadAbsent ==
    [][LoadAbsentStep =>
        /\ result' = FileNotFound
        /\ pc' = "menu"
        /\ deck' = deck
        /\ fs' = fs
        /\ Len(Added) = 3
        /\ Added[2] = [out |-> TRUE, string |-> FileNotFound]
        /\ Added[3] = [out |-> TRUE, string |-> MenuPrompt]]_vars

\* import has reported a missing file and the card of the deck is still there
C13_Witness ==
    /\ pc = "menu"
    /\ action = "import"
    /\ result = FileNotFound
    /\ fs[line].kind = "absent"
    /\ deck # <<>>

ExitStep == pc = "menu" /\ line' = "exit"

Heard(l) == [out |-> FALSE, string |-> Str(l)]

Shown(m) == [out |-> TRUE, string |-> m]

ByeBye == Str("Bye bye")

\* exit with --export_to: the file holds every card of the deck, the result
\* of the export is recorded, then the farewell, and the process has ended
ExitExports ==
    /\ fs'[args.export_to].kind = "json"
    /\ \A t \in Keys(deck) : Get(Holds(fs'[args.export_to]), t) = Get(deck, t)
    /\ deck' = deck
    /\ Added = <<Heard("exit"), Heard(args.export_to),
                 Shown([text |-> "cards have been saved.", n |-> Len(deck)]),
                 Shown(ByeBye)>>
    /\ pc' = "exited"

\* exit without --export_to: no file is written, the farewell is recorded
\* and the process has ended
ExitPlain ==
    /\ fs' = fs
    /\ deck' = deck
    /\ Added = <<Heard("exit"), Shown(ByeBye)>>
    /\ pc' = "exited"

\* C14 as stated: exit with an export target exports the deck to it, then
\* records the farewell, then ends the process; exit without one writes no
\* deck file; after exit nothing is dispatched and nothing changes.
C14_AsStated ==
    [][/\ ExitStep => IF args.export_to # NoArg THEN ExitExports ELSE ExitPlain
       /\ pc # "exited"]_vars

\* C14 amended: as stated when the export target is absent, zero bytes long
\* or valid JSON.  When it is a non-empty file that is not valid JSON the
\* export's parse fault ends the process: the file and the deck stay as they
\* were and no farewell is recorded.  Once the process has ended, either
\* way, nothing is dispatched and nothing changes.
C14_Exit ==
    [][/\ ExitStep =>
            IF args.export_to = NoArg THEN ExitPlain
            ELSE IF fs[args.export_to].kind # "garbage" THEN ExitExports
            ELSE /\ pc' = "crashed"
                 /\ fs' = fs
                 /\ deck' = deck
                 /\ Added = <<Heard("exit"), Heard(args.export_to)>>
       /\ pc \notin {"exited", "crashed"}]_vars

\* exit has exported a deck of two cards to the target and said the farewell
C14_Witness ==
    /\ pc = "exited"
    /\ args.export_to # NoArg
    /\ Len(deck) = 2
    /\ Keys(Holds(fs[args.export_to])) = Keys(deck)
    /\ buffer.lines[Len(buffer.lines)] = Shown(ByeBye)

IsPrefix(s, t) == Len(s) <= Len(t) /\ SubSeq(t, 1, Len(s)) = s

LogSaved == Str("The log has been saved.")

\* C15: every step leaves the transcript it found as a prefix of the
\* transcript afterwards; read returns the whole transcript from its first
\* entry, and the same again when nothing was written in between; log puts
\* the whole transcript, the file name just recorded included, in the file
\* and keeps it in memory, and what is recorded after the dump follows at
\* the end.
C15_AppendOnly ==
    [][/\ IsPrefix(buffer.lines, buffer'.lines)
       /\ read(buffer).string = buffer.lines
       /\ read(read(buffer).buffer).string = read(buffer).string
       /\ pc = "log_filename" =>
            /\ logfile'[line'].exists
            /\ logfile'[line'].lines = buffer.lines \o <<Heard(line')>>
            /\ Added = <<Heard(line'), Shown(LogSaved), Shown(MenuPrompt)>>]_vars

\* the transcript was saved, a later command has been recorded behind the
\* saved entries, and the transcript was saved once more
C15_Witness ==
    /\ pc = "menu"
    /\ action = "log"
    /\ \E n \in LogNames :
        /\ logfile[n].exists
        /\ Len(logfile[n].lines) > 8
        /\ IsPrefix(logfile[n].lines, buffer.lines)
        /\ \E i \in 1..Len(logfile[n].lines) - 3 : logfile[n].lines[i] = Shown(LogSaved)

\* the prompt shown before the input() call the process is blocked in
PromptAt ==
    CASE pc = "menu" -> MenuPrompt
      [] pc = "add_card" -> Str("Card:")
      [] pc = "add_def" -> Str("Definition:")
      [] pc = "remove_which" -> Str("Which card?")
      [] pc \in {"load_filename", "export_filename"} -> Str("Filename:")
      [] pc = "ask_times" -> Str("How many times?")
      [] pc = "ask_guess" -> question(Head(items))
      [] pc = "log_filename" -> Str("File name:")

\* C16 as stated: whenever a line is read, the prompt it answers is the last
\* entry of the transcript, and the step that reads a non-empty line first
\* records it as a user-input entry (an action, a file name, a term, a
\* definition, the number of questions, a quiz answer).
C16_AsStated ==
    [][pc \notin {"start", "exited", "crashed"} =>
        /\ buffer.lines # <<>>
        /\ buffer.lines[Len(buffer.lines)] = Shown(PromptAt)
        /\ line' # "" =>
            /\ Added # <<>>
            /\ Added[1].out = FALSE
            /\ Added[1].string.text = line']_vars

RECURSIVE Total(_)
\* the sum of all mistakes counters of a deck
Total(d) == IF d = <<>> THEN 0 ELSE Head(d).mistakes + Total(Tail(d))

HowMany == Str("How many times?")

\* the position of the last "ask" the user entered
LastAsk(ls) ==
    CHOOSE k \in 1..Len(ls) :
        /\ ls[k] = Heard("ask")
        /\ \A j \in (k + 1)..Len(ls) : ls[j] # Heard("ask")

\* the transcript ends with one whole ask on deck d: the prompt for the
\* number, the number n (0 is not recorded), then exactly n questions on
\* terms of d, each followed directly by its verdict, then the menu prompt
AskedExactly(ls, d) ==
    LET k == LastAsk(ls)
        counted == ls[k + 2].out = FALSE
        n == IF counted /\ ls[k + 2].string.int > 0 THEN ls[k + 2].string.int ELSE 0
        first == IF counted THEN k + 3 ELSE k + 2
    IN /\ ls[k + 1] = Shown(HowMany)
       /\ Len(ls) = first + 2 * n
       /\ \A i \in 0..(n - 1) :
            /\ ls[first + 2 * i].out
            /\ ls[first + 2 * i].string.text = "Input the definition of"
            /\ ls[first + 2 * i].string.card \in Keys(d)
            /\ ls[first + 2 * i + 1].out
            /\ ls[first + 2 * i + 1].string.text \in {"Correct!", "Wrong. The right answer is"}
       /\ ls[Len(ls)] = Shown(MenuPrompt)

\* ask goes on with the question on the next drawn term, or returns
AskGoesOn ==
    IF items' = <<>>
    THEN pc' = "menu" /\ AskedExactly(buffer'.lines, deck')
    ELSE /\ pc' = "ask_guess"
         /\ buffer'.lines[Len(buffer'.lines)] = Shown(question(Head(items')))

\* C17: on a non-empty deck an answer n >= 0 to "How many times?" draws
\* exactly n terms, all keys of the deck; every question is on the next drawn
\* term, its answer is graded as soon as it is read, the terms and the
\* definitions stay, and the sum of the counters grows by 1 for a wrong
\* answer and by 0 for a right one; ask returns after exactly n questions.
C17_Ask ==
    [][/\ (pc = "ask_times" /\ IsNumeral(line') /\ int(line') >= 0) =>
            /\ deck # <<>>
            /\ Len(items') = int(line')
            /\ \A i \in 1..Len(items') : items'[i] \in Keys(deck)
            /\ deck' = deck
            /\ AskGoesOn
       /\ pc = "ask_guess" =>
            LET c == Head(items)
                wrong == line' # Get(deck, c).definition
            IN /\ c \in Keys(deck)
               /\ items' = Tail(items)
               /\ Added[1] = Shown(verdict')
               /\ wrong <=> verdict'.text = "Wrong. The right answer is"
               /\ Keys(deck') = Keys(deck)
               /\ \A t \in Keys(deck) : Get(deck', t).definition = Get(deck, t).definition
               /\ Total(deck') = Total(deck) + (IF wrong THEN 1 ELSE 0)
               /\ AskGoesOn]_vars

\* ask has returned after two questions on a deck of two cards, one answered
\* right and one wrong
C17_Witness ==
    /\ pc = "menu"
    /\ action = "ask"
    /\ Len(deck) = 2
    /\ Total(deck) = 1
    /\ \E i \in 1..(Len(buffer.lines) - 5) :
        /\ buffer.lines[i] = [out |-> FALSE, string |-> IntObj(2)]
        /\ buffer.lines[i + 2] = Shown(Str("Correct!"))
        /\ buffer.lines[i + 4].string.text = "Wrong. The right answer is"
        /\ Len(buffer.lines) = i + 5

\* a step of Flashcards.load on a file of the given kind
LoadOf(kind) ==
    \/ pc = "load_filename" /\ fs[line'].kind = kind
    \/ pc = "start" /\ args.import_from # NoArg /\ fs[args.import_from].kind = kind

\* C18: load of a non-empty file that is not JSON ends in the parse fault:
\* no message is returned or shown, the deck is as it was, and the process
\* has ended, so nothing is dispatched afterwards; load of a zero-byte file
\* reports 0 cards and leaves the deck as it was.
C18_LoadFault ==
    [][/\ LoadOf("garbage") =>
            /\ pc' = "crashed"
            /\ result' = result
            /\ deck' = deck
            /\ fs' = fs
            /\ Added = <<Heard(LoadName)>>
       /\ LoadOf("empty") =>
            /\ pc' = "menu"
            /\ result' = [text |-> "cards have been loaded.", n |-> 0]
            /\ deck' = deck
            /\ fs' = fs
       /\ pc # "crashed"]_vars

\* import has died on a file that is not JSON, the deck still holds its card
C18_Witness ==
    /\ pc = "crashed"
    /\ action = "import"
    /\ fs[line].kind = "garbage"
    /\ deck # <<>>
    /\ result = None

Removed == Str("The card has been removed.")

\* C19: remove on a term of the deck returns "The card has been removed.",
\* the term is gone, every other card is as it was and in its place, and
\* the deck is smaller by exactly 1; the message is returned exactly when
\* the term was in the deck.
C19_Remove ==
    [][pc = "remove_which" =>
        /\ line' \in Keys(deck) =>
            /\ result' = Removed
            /\ line' \notin Keys(deck')
            /\ Keys(deck') = Keys(deck) \ {line'}
            /\ \A t \in Keys(deck') : Get(deck', t) = Get(deck, t)
            /\ Len(deck') = Len(deck) - 1
            /\ pc' = "menu"
        /\ result' = Removed <=> line' \in Keys(deck)]_vars

\* a card was removed from a deck of two and the other card is still there
C19_Witness ==
    /\ pc = "menu"
    /\ action = "remove"
    /\ result = Removed
    /\ Len(deck) = 1
    /\ line \notin Keys(deck)

\* the positions of the cards whose definition is the guess
Matching(d, guess) == {i \in 1..Len(d) : d[i].definition = guess}

First(S) == CHOOSE i \in S : \A j \in S : i <= j

\* C20: on a wrong guess the verdict names another card exactly when some
\* card of the deck has the guess as its definition; the card named has that
\* definition, is not the asked card, and is the first such card in the
\* deck's order.
C20_OtherCard ==
    [][(pc = "ask_guess" /\ line' # Get(deck, Head(items)).definition) =>
        LET hits == Matching(deck, line')
        IN /\ verdict'.text = "Wrong. The right answer is"
           /\ ("other" \in DOMAIN verdict') <=> (hits # {})
           /\ hits # {} =>
                /\ Get(deck, verdict'.other).definition = line'
                /\ verdict'.other # Head(items)
                /\ verdict'.other = deck[First(hits)].term]_vars

\* a wrong guess that is the definition of two other cards was graded and
\* the verdict names the first of them
C20_Witness ==
    /\ "other" \in DOMAIN verdict
    /\ Cardinality(Matching(deck, line)) = 2
    /\ verdict.other = deck[First(Matching(deck, line))].term
    /\ verdict.answer # line

====
